---- MODULE Spec2Model ----
(***************************************************************************)
(* Brand-visibility analysis engine of the AEO service                     *)
(* (internal/pkg/utils.go) and the handler that drives it                  *)
(* (internal/handler/prompt_handler.go, HandlePromptsEntry).               *)
(*                                                                         *)
(* A Go string is a sequence of one-character strings; a Go map is a       *)
(* function whose DOMAIN is the key set, and every `range` over a map may  *)
(* visit the keys in any order.                                            *)
(***************************************************************************)
EXTENDS Integers, Sequences, FiniteSets, TLC

VARIABLES
    pc,               \* position of HandlePromptsEntry
    model,            \* pkg.model, the process-wide sentiment model
    brandName,        \* userData.BrandName
    competitors,      \* userData.Competitor, the tracked names in stored order
    prompts,          \* req.Prompts: records [Prompt, Country]
    results,          \* []pkg.PromptResponse collected by the handler
    brandAliases,     \* brandAliases of the handler
    competitorMap,    \* competitorMap of the handler
    analysisResults,  \* result of the latest pkg.AnalyzeResponses call
    previousResults,  \* <<result>> of the call before it on the same arguments
    counted,          \* per response, the matches CountBrandMentions counted
    status,           \* HTTP status of the last answer, 0 while a request runs
    call,             \* the latest direct call of a function of package pkg
    stored,           \* per table, whether it holds rows of the latest request
    tasks             \* the goroutines running AnalyzeResponses side by side

vars == <<pc, model, brandName, competitors, prompts, results, brandAliases,
          competitorMap, analysisResults, previousResults, counted, status,
          call, stored, tasks>>

----------------------------------------------------------------------------
(* Bounds of the explored inputs *)

MaxTextLen == 3       \* characters of one enumerated response text
MaxNameLen == 3       \* characters of one enumerated entity name
MaxTokens == 3        \* fragments of one enumerated domain text
MaxBatchLen == 2      \* characters of the responses of a batch text

----------------------------------------------------------------------------
(* Characters and the strings package *)

Lowers == <<"a","b","c","d","e","f","g","h","i","j","k","l","m",
            "n","o","p","q","r","s","t","u","v","w","x","y","z">>
Uppers == <<"A","B","C","D","E","F","G","H","I","J","K","L","M",
            "N","O","P","Q","R","S","T","U","V","W","X","Y","Z">>
Digits == {"0","1","2","3","4","5","6","7","8","9"}

LowerSet == {Lowers[i] : i \in 1..26}
UpperSet == {Uppers[i] : i \in 1..26}
LetterSet == LowerSet \cup UpperSet

LowerOf == [c \in UpperSet |-> Lowers[CHOOSE i \in 1..26 : Uppers[i] = c]]

\* unicode.ToLower on one ASCII character
ToLowerChar(c) == IF c \in UpperSet THEN LowerOf[c] ELSE c

\* strings.ToLower
ToLower(s) == [i \in 1..Len(s) |-> ToLowerChar(s[i])]

\* unicode.IsSpace
IsSpace(c) == c \in {" ", "\t", "\n", "\r"}

\* the regexp word class \w = [0-9A-Za-z_]
IsWordChar(c) == c \in LetterSet \cup Digits \cup {"_"}

\* s[from..to], 1-based and inclusive; empty when from > to
Slice(s, from, to) == [i \in 1..(to - from + 1) |-> s[from + i - 1]]

Min(S) == CHOOSE x \in S : \A y \in S : x <= y
Max(S) == CHOOSE x \in S : \A y \in S : y <= x

\* strings.TrimSpace
TrimSpace(s) ==
    LET keep == {i \in 1..Len(s) : ~IsSpace(s[i])}
    IN  IF keep = {} THEN <<>> ELSE Slice(s, Min(keep), Max(keep))

\* strings.Fields: the maximal runs of non-space characters, in order
RECURSIVE FieldsFrom(_, _)

\* 1-based index of the first non-space character at or after from, or 0
FieldStart(s, from) ==
    LET starts == {i \in from..Len(s) : ~IsSpace(s[i])}
    IN  IF starts = {} THEN 0 ELSE Min(starts)

\* 1-based index after the field that starts at b
FieldEnd(s, b) ==
    LET stops == {i \in b..Len(s) : IsSpace(s[i])}
    IN  IF stops = {} THEN Len(s) + 1 ELSE Min(stops)

FieldsAt(s, b, e) == <<Slice(s, b, e - 1)>> \o FieldsFrom(s, e)

NextField(s, b) == IF b = 0 THEN <<>> ELSE FieldsAt(s, b, FieldEnd(s, b))

FieldsFrom(s, from) == NextField(s, FieldStart(s, from))

Fields(s) == FieldsFrom(s, 1)

\* strings.Join
RECURSIVE Join(_, _)
Join(parts, sep) ==
    IF Len(parts) = 0 THEN <<>>
    ELSE IF Len(parts) = 1 THEN parts[1]
    ELSE parts[1] \o sep \o Join(Tail(parts), sep)

\* strings.ReplaceAll(s, old, "") for a one-character old
RemoveChar(s, old) == SelectSeq(s, LAMBDA c : c # old)

\* strings.EqualFold on ASCII
EqualFold(a, b) == ToLower(a) = ToLower(b)

\* sub occurs in s at 0-based offset p
OccursAt(s, sub, p) ==
    /\ p + Len(sub) <= Len(s)
    /\ \A k \in 1..Len(sub) : s[p + k] = sub[k]

\* strings.Index: the lowest 0-based offset of sub in s, or -1
Index(s, sub) ==
    LET hits == {p \in 0..Len(s) : OccursAt(s, sub, p)}
    IN  IF hits = {} THEN -1 ELSE Min(hits)

\* all orders in which the elements of a finite set can be visited
RECURSIVE Orderings(_)
Orderings(S) ==
    IF S = {} THEN {<<>>}
    ELSE UNION {{<<x>> \o rest : rest \in Orderings(S \ {x})} : x \in S}

Range(s) == {s[i] : i \in 1..Len(s)}

----------------------------------------------------------------------------
(* GenerateAliases *)

\* the initials: the first byte of every part
Initials(parts) == [i \in 1..Len(parts) |-> parts[i][1]]

\* AliasKeys with the initials added for every name that has a word
AliasKeysAlwaysInitials(name, parts, noSpace) ==
    {name, noSpace}
    \cup (IF Len(parts) > 0 THEN {parts[1], Initials(parts)} ELSE {})
    \cup {RemoveChar(RemoveChar(noSpace, "-"), "_")}

\* the keys of aliasesMap when the function reaches its final loop, for the
\* lowercased trimmed name, its parts and noSpace
AliasKeys(name, parts, noSpace) ==
    {name, noSpace}
    \cup (IF Len(parts) > 0 THEN {parts[1]} ELSE {})
    \cup (IF Len(parts) > 1 THEN {Initials(parts)} ELSE {})
    \cup {RemoveChar(RemoveChar(noSpace, "-"), "_")}

AliasParts(name, parts) == AliasKeys(name, parts, Join(parts, <<>>))

AliasSet(rawName) ==
    AliasParts(ToLower(TrimSpace(rawName)), Fields(ToLower(TrimSpace(rawName))))

\* GenerateAliases without strings.ToLower
GenerateAliasesOfRaw(rawName) ==
    Orderings(AliasParts(TrimSpace(rawName), Fields(TrimSpace(rawName))))

\* the slices GenerateAliases can return: the keys in any iteration order
GenerateAliases(rawName) == Orderings(AliasSet(rawName))

----------------------------------------------------------------------------
(* regexp: the pattern `\b` + QuoteMeta(lit) + `\b` *)

\* \b at 0-based offset q of t: exactly one neighbour is a word character
WordBoundary(t, q) ==
    (q >= 1 /\ IsWordChar(t[q])) # (q < Len(t) /\ IsWordChar(t[q + 1]))

MatchAt(t, lit, p) ==
    /\ OccursAt(t, lit, p)
    /\ WordBoundary(t, p)
    /\ WordBoundary(t, p + Len(lit))

\* the leftmost match at or after pos, or -1
FirstMatch(t, lit, pos) ==
    LET hits == {p \in pos..Len(t) : MatchAt(t, lit, p)}
    IN  IF hits = {} THEN -1 ELSE Min(hits)

\* Regexp.allMatches: start offsets of the successive leftmost matches; an
\* empty match (e = pos) is dropped when it abuts the match before it, and
\* the search moves on by one character after it
RECURSIVE FindAllLoop(_, _, _, _)

FindAllStep(t, lit, pos, prevMatchEnd, p, e) ==
    IF p = -1 THEN <<>>
    ELSE (IF e = pos /\ p = prevMatchEnd THEN <<>> ELSE <<p>>)
         \o FindAllLoop(t, lit, IF e = pos THEN pos + 1 ELSE e, e)

FindAllLoop(t, lit, pos, prevMatchEnd) ==
    IF pos > Len(t) THEN <<>>
    ELSE FindAllStep(t, lit, pos, prevMatchEnd, FirstMatch(t, lit, pos),
                     FirstMatch(t, lit, pos) + Len(lit))

\* re.FindAllStringIndex(t, -1), as the start offsets
FindAllStringIndex(t, lit) == FindAllLoop(t, lit, 0, -1)

\* 1-based indices of t covered by the matches of length n that start at
\* the offsets starts
Covered(t, starts, n) ==
    {i \in 1..Len(t) :
        \E k \in 1..Len(starts) : starts[k] < i /\ i <= starts[k] + n}

\* the subsequence of s at the indices outside drop
RECURSIVE DropIndices(_, _, _)
DropIndices(s, drop, i) ==
    IF i > Len(s) THEN <<>>
    ELSE (IF i \in drop THEN <<>> ELSE <<s[i]>>) \o DropIndices(s, drop, i + 1)

----------------------------------------------------------------------------
(* CountBrandMentions *)

(* The working text normText is kept with, for every character, its 0-based
   offset in the original text (off), so that a counted match can be named
   by the characters of the original text it covers (offs) and by the
   original offset at which it starts (gap). *)
WorkingText(text) ==
    [txt |-> ToLower(text), off |-> [i \in 1..Len(text) |-> i - 1],
     len |-> Len(text)]

\* countMatches reporting whether the alias occurs instead of how often
countMatchesOnce(t, alias) ==
    IF Len(FindAllStringIndex(t, TrimSpace(ToLower(alias)))) > 0 THEN 1 ELSE 0

\* the closure countMatches
countMatches(t, alias) ==
    Len(FindAllStringIndex(t, TrimSpace(ToLower(alias))))

\* the matches of lit at the offsets starts, as spans of the original text
SpansAt(work, lit, starts) ==
    [k \in 1..Len(starts) |->
        [alias |-> lit,
         gap |-> IF starts[k] < Len(work.off)
                 THEN work.off[starts[k] + 1] ELSE work.len,
         offs |-> Slice(work.off, starts[k] + 1, starts[k] + Len(lit))]]

\* the matches countMatches counts
CountedSpans(work, alias) ==
    SpansAt(work, TrimSpace(ToLower(alias)),
            FindAllStringIndex(work.txt, TrimSpace(ToLower(alias))))

Erase(work, drop) ==
    [txt |-> DropIndices(work.txt, drop, 1),
     off |-> DropIndices(work.off, drop, 1),
     len |-> work.len]

\* normText = re.ReplaceAllString(normText, ""): the pattern is built from
\* the lowercased alias, which is not trimmed here
EraseAlias(work, alias) ==
    Erase(work, Covered(work.txt,
                        FindAllStringIndex(work.txt, ToLower(alias)),
                        Len(alias)))

\* one `for _, alias := range aliases` loop: the count, the spans counted
\* and the working text left
RECURSIVE AliasLoop(_, _, _)

AliasStep(c, spans, rest) ==
    [count |-> c + rest.count, spans |-> spans \o rest.spans,
     work |-> rest.work]

AliasLoop(work, aliases, i) ==
    IF i > Len(aliases) THEN [count |-> 0, spans |-> <<>>, work |-> work]
    ELSE AliasStep(countMatches(work.txt, aliases[i]),
                   CountedSpans(work, aliases[i]),
                   AliasLoop(EraseAlias(work, aliases[i]), aliases, i + 1))

Pass(name, loop) == [name |-> name, count |-> loop.count, spans |-> loop.spans]

\* the competitor loop, visiting the map keys in the given order
RECURSIVE CompetitorLoop(_, _, _, _)

CompetitorStep(loop, competitorAliases, order, i) ==
    <<Pass(order[i], loop)>>
    \o CompetitorLoop(loop.work, competitorAliases, order, i + 1)

CompetitorLoop(work, competitorAliases, order, i) ==
    IF i > Len(order) THEN <<>>
    ELSE CompetitorStep(AliasLoop(work, competitorAliases[order[i]], 1),
                        competitorAliases, order, i)

BrandStep(name, loop, competitorAliases, order) ==
    <<Pass(name, loop)>> \o CompetitorLoop(loop.work, competitorAliases, order, 1)

\* the entities in processing order, each with its count and counted spans
MentionPasses(text, name, aliases, competitorAliases, order) ==
    BrandStep(name, AliasLoop(WorkingText(text), aliases, 1),
              competitorAliases, order)

\* index of the last pass that assigns counts[k]
LastPass(passes, k) ==
    Max({i \in 1..Len(passes) : passes[i].name = k})

\* the map counts after the passes: a later assignment to a key replaces an
\* earlier one
Counts(passes) ==
    [k \in {passes[i].name : i \in 1..Len(passes)} |->
        passes[LastPass(passes, k)].count]

\* the map returned, for one iteration order of competitorAliases
CountBrandMentions(text, name, aliases, competitorAliases, order) ==
    Counts(MentionPasses(text, name, aliases, competitorAliases, order))

----------------
(* CalculateBrandVisibility, WordVolume, AnalyzeSentiment *)

RECURSIVE GCD(_, _)
GCD(a, b) == IF b = 0 THEN a ELSE GCD(b, a % b)

\* the float64 (n / d) * 100 for integers n >= 0, d > 0, as the fraction
\* 100n/d in lowest terms: equal floats are equal fractions
Percent(n, d) ==
    LET g == GCD(100 * n, d)
    IN  [num |-> (100 * n) \div g, den |-> d \div g]

Zero == [num |-> 0, den |-> 1]

\* the inner loop over brandAliases, which stops at the first alias that
\* folds to the name
RECURSIVE MatchesAnAlias(_, _, _)
MatchesAnAlias(name, aliases, i) ==
    IF i > Len(aliases) THEN FALSE
    ELSE IF EqualFold(name, aliases[i]) THEN TRUE
    ELSE MatchesAnAlias(name, aliases, i + 1)

\* the range over mentions; both sums are independent of the visiting order
RECURSIVE VisibilityLoop(_, _, _)
VisibilityLoop(mentions, aliases, keys) ==
    IF keys = {} THEN [total |-> 0, brandCount |-> 0]
    ELSE LET name == CHOOSE k \in keys : TRUE
             rest == VisibilityLoop(mentions, aliases, keys \ {name})
         IN  [total |-> mentions[name] + rest.total,
              brandCount |-> IF MatchesAnAlias(name, aliases, 1)
                             THEN mentions[name] + rest.brandCount
                             ELSE rest.brandCount]

\* the return statements with the division done on integers
VisibilityOfIntegers(sums) ==
    IF sums.total = 0 THEN Zero
    ELSE [num |-> (sums.brandCount \div sums.total) * 100, den |-> 1]

\* the return statements, for the sums the loop leaves
VisibilityOf(sums) ==
    IF sums.total = 0 THEN Zero ELSE Percent(sums.brandCount, sums.total)

CalculateBrandVisibility(mentions, aliases) ==
    VisibilityOf(VisibilityLoop(mentions, aliases, DOMAIN mentions))

WordVolume(text) == Len(Fields(text))

\* greatest value of analysis.Score, a uint8
MaxUint8 == 255

(* A value of the pointer `model`: nil, or a restored classifier. The
   classifier is external; all that is known of it is that its score is a
   uint8 fixed by the model and the text, which `seed` stands for. *)
Nil == [restored |-> FALSE, seed |-> 0]
Models == {[restored |-> TRUE, seed |-> s] : s \in 0..MaxUint8}
Restored == [restored |-> TRUE, seed |-> 0]

\* model.SentimentAnalysis(text, sentiment.English).Score
SentimentScore(m, text) == (m.seed + Len(text)) % (MaxUint8 + 1)

\* score := int((float64(analysis.Score) / 2.0) * 99.0) + 1, clamped to
\* 1..100 (the float product is exact, int() cuts the half off)
Clamp(score) == IF score < 1 THEN 1 ELSE IF score > 100 THEN 100 ELSE score

\* the conversion without the two clamping branches
RescaleUnclamped(score) == ((99 * score) \div 2) + 1

Rescale(score) == Clamp(((99 * score) \div 2) + 1)

\* AnalyzeSentiment without the check of the model
AnalyzeSentimentUnchecked(m, text) == {Rescale(SentimentScore(m, text))}

\* the scores AnalyzeSentiment can return: none when it panics, the model
\* being nil
AnalyzeSentiment(m, text) ==
    IF m = Nil THEN {} ELSE {Rescale(SentimentScore(m, text))}

----------------------------------------------------------------------------
(* BrandPosition *)

\* the index the competitor loop leaves in brandIndices[comp]: that of the
\* last alias of the slice that occurs in the text, -1 if none occurs
RECURSIVE LastAliasIndex(_, _, _)

LastAliasStep(textLower, aliases, i, idx) ==
    IF idx # -1 THEN idx ELSE LastAliasIndex(textLower, aliases, i - 1)

LastAliasIndex(textLower, aliases, i) ==
    IF i = 0 THEN -1
    ELSE LastAliasStep(textLower, aliases, i,
                       Index(textLower, ToLower(aliases[i])))

\* the first loop: the index of the brand name and of every alias that
\* occurs in the text, each under its own string as the key
BrandLoop(textLower, allBrands) ==
    [b \in {a \in Range(allBrands) : Index(textLower, ToLower(a)) # -1} |->
        Index(textLower, ToLower(b))]

\* the second loop: one index per competitor that has an alias in the text
CompetitorIndices(textLower, competitorAliases) ==
    [c \in {k \in DOMAIN competitorAliases :
               LastAliasIndex(textLower, competitorAliases[k],
                              Len(competitorAliases[k])) # -1} |->
        LastAliasIndex(textLower, competitorAliases[c],
                       Len(competitorAliases[c]))]

\* brandIndices after both loops: an assignment of the second loop replaces
\* one of the first loop to the same key
Overwrite(first, second) ==
    [k \in DOMAIN first \cup DOMAIN second |->
        IF k \in DOMAIN second THEN second[k] ELSE first[k]]

BrandIndices(text, name, aliases, competitorAliases) ==
    Overwrite(BrandLoop(ToLower(text), <<name>> \o aliases),
              CompetitorIndices(ToLower(text), competitorAliases))

\* the slices `positions` can be after sort.Slice: the entries of brandIndices
\* in non-decreasing Index, entries of equal Index in any order (the map is
\* ranged over in any order)
RECURSIVE SortedPositions(_, _)
SortedPositions(brandIndices, keys) ==
    IF keys = {} THEN {<<>>}
    ELSE LET least == {k \in keys :
                          \A j \in keys : brandIndices[k] <= brandIndices[j]}
         IN  UNION {{<<[Name |-> k, Index |-> brandIndices[k]]>> \o rest :
                        rest \in SortedPositions(brandIndices, keys \ {k})} :
                    k \in least}

\* the final loop without the comparison of names
RankOfFirst(positions, name) == IF Len(positions) = 0 THEN 0 ELSE 1

\* the final loop: the 1-based rank of the first entry whose name folds to
\* brandName, or 0
RankOf(positions, name) ==
    LET found == {i \in 1..Len(positions) : EqualFold(positions[i].Name, name)}
    IN  IF found = {} THEN 0 ELSE Min(found)

\* the values BrandPosition can return
RanksOf(brandIndices, name) ==
    {RankOf(positions, name) :
        positions \in SortedPositions(brandIndices, DOMAIN brandIndices)}

BrandPosition(text, name, aliases, competitorAliases) ==
    RanksOf(BrandIndices(text, name, aliases, competitorAliases), name)

----------------------------------------------------------------------------
(* ExtractDomains: the pattern ([a-zA-Z0-9-]+\.)+[a-zA-Z]{2,} *)

IsLabelChar(c) == c \in LetterSet \cup Digits \cup {"-"}

\* the offset after one group [a-zA-Z0-9-]+\. that starts at offset p, or -1;
\* a label cannot hold a dot, so it runs to the next dot
LabelTo(t, p, d) ==
    IF d > p + 1 /\ \A q \in (p + 1)..(d - 1) : IsLabelChar(t[q])
    THEN d ELSE -1

GroupEnd(t, p) ==
    LET dots == {q \in (p + 1)..Len(t) : t[q] = "."}
    IN  IF dots = {} THEN -1 ELSE LabelTo(t, p, Min(dots))

\* the offset after the longest run of letters at offset p
LettersEnd(t, p) ==
    LET stops == {q \in (p + 1)..Len(t) : t[q] \notin LetterSet}
    IN  IF stops = {} THEN Len(t) ELSE Min(stops) - 1

\* the offset after [a-zA-Z]{2,} at offset p, or -1
AtLeastTwo(p, e) == IF e - p >= 2 THEN e ELSE -1

TldEnd(t, p) == AtLeastTwo(p, LettersEnd(t, p))

\* the end of the match that starts at p, -1 if there is none, after at
\* least one group has been read up to offset g: the greedy + tries one
\* more group first and falls back to the top-level label
RECURSIVE DomainEndAfter(_, _)

OrElse(longer, fallback) == IF longer # -1 THEN longer ELSE fallback

DomainEndFrom(t, g) == IF g = -1 THEN -1 ELSE DomainEndAfter(t, g)

DomainEndAfter(t, g) == OrElse(DomainEndFrom(t, GroupEnd(t, g)), TldEnd(t, g))

DomainEnd(t, p) == DomainEndFrom(t, GroupEnd(t, p))

\* the leftmost offset at or after pos where a match starts, or -1
FirstDomain(t, pos) ==
    LET hits == {p \in pos..Len(t) : DomainEnd(t, p) # -1}
    IN  IF hits = {} THEN -1 ELSE Min(hits)

\* re.FindAllString(text, -1): the successive leftmost matches
RECURSIVE FindAllDomains(_, _)

DomainStep(t, p, e) == <<Slice(t, p + 1, e)>> \o FindAllDomains(t, e)

DomainAt(t, p) == IF p = -1 THEN <<>> ELSE DomainStep(t, p, DomainEnd(t, p))

FindAllDomains(t, pos) == DomainAt(t, FirstDomain(t, pos))

DomainAnalysis(d) ==
    [Domain |-> d, Used |-> 1, AvgCitations |-> 0, Type |-> "unknown"]

\* one entry per match, without the map `unique`
EveryMatch(matches) == {[i \in 1..Len(matches) |-> DomainAnalysis(matches[i])]}

\* the slices returned for a list of matches: one entry per key of `unique`,
\* the keys in any iteration order (Added, the wall clock, is left out)
UniqueDomains(matches) ==
    {[i \in 1..Len(order) |-> DomainAnalysis(order[i])] :
        order \in Orderings(Range(matches))}

ExtractDomains(text) == UniqueDomains(FindAllDomains(text, 0))

----------------------------------------------------------------------------
(* AnalyzeResponses *)

\* the `for comp, aliases := range competitorAliases` loop of one response,
\* visiting the keys in the given order: the slices it can append
BrandAnalysis(name, sentiment, position, visibility) ==
    [BrandName |-> name, Sentiment |-> sentiment, Position |-> position,
     Visibility |-> visibility]

RECURSIVE CompetitorAnalyses(_, _, _, _, _, _)

\* the competitor scored on its name in place of the response text
CompetitorAnalysisOfName(m, text, mentions, competitorAliases, comp, aliases) ==
    {BrandAnalysis(comp, compSentiment, compPosition,
                   CalculateBrandVisibility(mentions, aliases)) :
        compPosition \in BrandPosition(text, comp, aliases, competitorAliases),
        compSentiment \in AnalyzeSentiment(m, comp)}

CompetitorAnalysis(m, text, mentions, competitorAliases, comp, aliases) ==
    {BrandAnalysis(comp, compSentiment, compPosition,
                   CalculateBrandVisibility(mentions, aliases)) :
        compPosition \in BrandPosition(text, comp, aliases, competitorAliases),
        compSentiment \in AnalyzeSentiment(m, text)}

CompetitorAnalyses(m, text, mentions, competitorAliases, order, i) ==
    IF i > Len(order) THEN {<<>>}
    ELSE {<<a>> \o rest :
             a \in CompetitorAnalysis(m, text, mentions, competitorAliases,
                                      order[i], competitorAliases[order[i]]),
             rest \in CompetitorAnalyses(m, text, mentions,
                                         competitorAliases, order, i + 1)}

\* the AnalyzeSentiment calls of one iteration: one for the main brand and
\* one in every iteration of the competitor loop
SentimentCalls(competitorAliases) == 1 + Cardinality(DOMAIN competitorAliases)

\* the MinimalAnalysis literal (Tags is never set and Added is the wall
\* clock: both are left out), with the passes of its CountBrandMentions call
NewMinimalAnalysis(r, country, name, mentions, passes, mainSentiment, mainPosition, mainVisibility, compAnalyses, domains) ==
    [Prompt |-> r.Prompt,
     Response |-> r.Response,
     Sentiment |-> mainSentiment,
     Position |-> mainPosition,
     Mentions |-> mentions,
     Visibility |-> mainVisibility,
     Domains |-> domains,
     Volume |-> WordVolume(r.Response),
     Location |-> country,
     Brands |-> <<BrandAnalysis(name, mainSentiment, mainPosition,
                                mainVisibility)>> \o compAnalyses,
     Passes |-> passes]

MinimalAnalysis(mainSentiment, r, country, name, aliases, mentions, passes, mainPosition, compAnalyses, domains) ==
    NewMinimalAnalysis(r, country, name, mentions, passes,
                       mainSentiment, mainPosition,
                       CalculateBrandVisibility(mentions, <<name>> \o aliases),
                       compAnalyses, domains)

\* the results the loop body can append for one response, given the map
\* CountBrandMentions returned and the passes that produced it
AnalyzeWith(m, r, country, name, aliases, competitorAliases, mentions, passes) ==
    UNION {
      {MinimalAnalysis(mainSentiment, r, country, name, aliases, mentions,
                       passes, mainPosition, compAnalyses, domains) :
          mainPosition \in BrandPosition(r.Response, name, aliases,
                                         competitorAliases),
          mainSentiment \in AnalyzeSentiment(m, r.Response),
          compAnalyses \in CompetitorAnalyses(m, r.Response, mentions,
                                              competitorAliases,
                                              brandsOrder, 1),
          domains \in ExtractDomains(r.Response)} :
      brandsOrder \in Orderings(DOMAIN competitorAliases)}

AnalyzePasses(m, r, country, name, aliases, competitorAliases, passes) ==
    AnalyzeWith(m, r, country, name, aliases, competitorAliases,
                Counts(passes), passes)

\* the loop body, for every iteration order of the map inside
\* CountBrandMentions
AnalyzeResponse(m, r, country, name, aliases, competitorAliases) ==
    UNION {AnalyzePasses(m, r, country, name, aliases, competitorAliases,
                         MentionPasses(r.Response, name, aliases,
                                       competitorAliases, countOrder)) :
           countOrder \in Orderings(DOMAIN competitorAliases)}

\* the slices the loop can return; none when AnalyzeSentiment panics in an
\* iteration
RECURSIVE AnalyzeLoop(_, _, _, _, _, _, _)

\* the loop with every result put in front of the ones before it
AnalyzeLoopPrepend(m, responses, country, name, aliases, competitorAliases, i) ==
    IF i > Len(responses) THEN {<<>>}
    ELSE {rest \o <<a>> :
             a \in AnalyzeResponse(m, responses[i], country, name, aliases,
                                   competitorAliases),
             rest \in AnalyzeLoop(m, responses, country, name, aliases,
                                  competitorAliases, i + 1)}

AnalyzeLoop(m, responses, country, name, aliases, competitorAliases, i) ==
    IF i > Len(responses) THEN {<<>>}
    ELSE {<<a>> \o rest :
             a \in AnalyzeResponse(m, responses[i], country, name, aliases,
                                   competitorAliases),
             rest \in AnalyzeLoop(m, responses, country, name, aliases,
                                  competitorAliases, i + 1)}

\* the slices AnalyzeResponses can return; none when it panics
AnalyzeResponses(m, responses, country, name, aliases, competitorAliases) ==
    AnalyzeLoop(m, responses, country, name, aliases, competitorAliases, 1)

----------------------------------------------------------------------------
(* The explored inputs *)

Alphabet == {"a", "b", "A", " ", "-"}

\* all strings over chars of length at most n
RECURSIVE StringsUpTo(_, _)
StringsUpTo(chars, n) ==
    IF n = 0 THEN {<<>>}
    ELSE LET shorter == StringsUpTo(chars, n - 1)
         IN  shorter \cup {Append(s, c) : s \in shorter, c \in chars}

ShortTexts == StringsUpTo(Alphabet, MaxTextLen)

\* the texts explored where two calls or two responses are combined
BatchAlphabet == {"a", "b", " "}
BatchTexts == StringsUpTo(BatchAlphabet, MaxBatchLen)

NameAlphabet == Alphabet \cup {"_"}

\* stored names are never empty (part_001 lines 38-45 and 138)
AllNames == StringsUpTo(NameAlphabet, MaxNameLen) \ {<<>>}

\* names of the engine profiles
NameAb == <<"A", " ", "b">>
NameJoined == <<"a", "b">>
NameB == <<"b">>
NameDash == <<"-">>
NameTwice == <<"a", " ", "a">>
NameUnder == <<"_">>

\* the end-to-end scenario
AcmeCorp ==
    <<"A","c","m","e"," ","C","o","r","p">>
Globex ==
    <<"G","l","o","b","e","x">>
ScenarioText ==
    <<"A","c","m","e"," ","i","s"," ","b","e","t","t","e","r"," ","t",
      "h","a","n"," ","G","l","o","b","e","x","."," ","V","i","s","i",
      "t"," ","a","c","m","e",".","c","o","m"," ","f","o","r"," ","d",
      "e","t","a","i","l","s",".">>
ExampleText ==
    <<"s","e","e"," ","e","x","a","m","p","l","e",".","c","o","m"," ",
      "a","n","d"," ","e","x","a","m","p","l","e",".","c","o","m"," ",
      "a","g","a","i","n">>

Profile(b, cs) == [brandName |-> b, competitors |-> cs]

EngineProfiles ==
    {Profile(NameAb, <<>>),
     Profile(NameAb, <<NameB>>),
     Profile(NameAb, <<NameJoined>>),
     Profile(NameAb, <<NameB, NameJoined>>),
     Profile(NameJoined, <<NameAb>>),
     Profile(NameJoined, <<NameJoined>>),
     Profile(NameB, <<NameAb, NameJoined>>),
     Profile(NameB, <<NameTwice>>),
     Profile(NameTwice, <<NameB>>),
     Profile(NameDash, <<NameJoined>>)}

\* the profiles explored with requests of two prompts
BatchProfiles ==
    {Profile(NameAb, <<NameB>>), Profile(NameB, <<NameAb, NameJoined>>)}

ScenarioProfile == Profile(AcmeCorp, <<Globex>>)
DomainProfile == Profile(NameB, <<>>)
NameProfiles == {Profile(n, <<>>) : n \in AllNames}
CompetitorNameProfiles ==
    {Profile(NameB, <<n>>) :
        n \in StringsUpTo(NameAlphabet, MaxBatchLen) \ {<<>>}}

\* a brand and a competitor whose alias lists share the empty alias
EmptyAliasProfile == Profile(NameDash, <<NameUnder>>)

Profiles ==
    EngineProfiles \cup {ScenarioProfile, DomainProfile, EmptyAliasProfile}
    \cup NameProfiles \cup CompetitorNameProfiles

\* texts made of at most n fragments
Fragments ==
    {<<"a">>, <<".">>, <<" ">>, <<"1">>, <<"a", ".", "a", "b">>}

RECURSIVE FragmentTexts(_)
FragmentTexts(n) ==
    IF n = 0 THEN {<<>>}
    ELSE LET shorter == FragmentTexts(n - 1)
         IN  shorter \cup {s \o f : s \in shorter, f \in Fragments}

DomainTexts == FragmentTexts(MaxTokens) \cup {ExampleText}

PromptLists ==
    {<<[Prompt |-> "p1", Country |-> "IN"]>>,
     <<[Prompt |-> "p1", Country |-> "IN"], [Prompt |-> "p2", Country |-> "US"]>>,
     <<[Prompt |-> "p2", Country |-> "US"], [Prompt |-> "p1", Country |-> "IN"]>>}

RECURSIVE TotalLen(_)
TotalLen(rs) == IF rs = <<>> THEN 0 ELSE Len(rs[1].Response) + TotalLen(Tail(rs))

\* the answers explored for the next prompt of the request in hand
Answers(profile, ps, collected) ==
    IF profile = ScenarioProfile THEN {ScenarioText}
    ELSE IF Len(ps) > 1
    THEN {t \in BatchTexts : TotalLen(collected) + Len(t) <= MaxBatchLen}
    ELSE IF profile = DomainProfile THEN DomainTexts
    ELSE IF profile = EmptyAliasProfile THEN BatchTexts
    ELSE IF profile \in EngineProfiles THEN ShortTexts
    ELSE {<<>>}

----------------------------------------------------------------------------
(* The server: main, then HandlePromptsEntry for one request at a time *)

\* the locals of a handler that is not running
NoRequest ==
    /\ brandName' = <<>>
    /\ competitors' = <<>>
    /\ prompts' = <<>>
    /\ results' = <<>>
    /\ brandAliases' = <<>>
    /\ competitorMap' = <<>>
    /\ analysisResults' = <<>>
    /\ previousResults' = <<>>
    /\ counted' = <<>>

\* no function of the package has been called directly
NoCall == [fn |-> "none"]

\* no table holds a row of the request
NothingStored ==
    [responses |-> FALSE, meta |-> FALSE, brands |-> FALSE, domains |-> FALSE]

\* no goroutine runs AnalyzeResponses
NoTasks == <<>>

Init ==
    /\ pc = "boot"
    /\ model = Nil
    /\ brandName = <<>>
    /\ competitors = <<>>
    /\ prompts = <<>>
    /\ results = <<>>
    /\ brandAliases = <<>>
    /\ competitorMap = <<>>
    /\ analysisResults = <<>>
    /\ previousResults = <<>>
    /\ counted = <<>>
    /\ status = 0
    /\ call = NoCall
    /\ stored = NothingStored
    /\ tasks = NoTasks

\* main starting to serve without installing the model
MainWithoutModel ==
    /\ pc = "boot"
    /\ pc' = "idle"
    /\ UNCHANGED <<model, brandName, competitors, prompts, results,
                   brandAliases, competitorMap, analysisResults,
                   previousResults, counted, status>>
    /\ UNCHANGED <<call, stored, tasks>>

\* main: sentiment.Restore succeeds, SetSentimentModel, ListenAndServe
Main ==
    /\ pc = "boot"
    /\ model' = Restored
    /\ pc' = "idle"
    /\ UNCHANGED <<brandName, competitors, prompts, results, brandAliases,
                   competitorMap, analysisResults, previousResults, counted,
                   status>>
    /\ UNCHANGED <<call, stored, tasks>>

\* main: sentiment.Restore fails, log.Fatalf ends the process
MainFatal ==
    /\ pc = "boot"
    /\ pc' = "exit"
    /\ UNCHANGED <<model, brandName, competitors, prompts, results,
                   brandAliases, competitorMap, analysisResults,
                   previousResults, counted, status>>
    /\ UNCHANGED <<call, stored, tasks>>

\* HandlePromptsEntry up to the fetched user: a valid body and a user with a
\* brand
Accept ==
    /\ pc = "idle"
    /\ \E ps \in PromptLists, profile \in Profiles :
          /\ Len(ps) > 1 => profile \in BatchProfiles
          /\ prompts' = ps
          /\ brandName' = profile.brandName
          /\ competitors' = profile.competitors
    /\ pc' = "openai"
    /\ status' = 0
    /\ UNCHANGED <<model, results, brandAliases, competitorMap,
                   analysisResults, previousResults, counted>>
    /\ stored' = NothingStored
    /\ UNCHANGED <<call, tasks>>

\* HandlePromptsEntry answers 405, 401, 400 or 500 before it asks the generator
Reject ==
    /\ pc = "idle"
    /\ \E code \in {400, 401, 405, 500} : status' = code
    /\ UNCHANGED <<pc, model, brandName, competitors, prompts, results,
                   brandAliases, competitorMap, analysisResults,
                   previousResults, counted>>
    /\ stored' = NothingStored
    /\ UNCHANGED <<call, tasks>>

\* one iteration of the loop over req.Prompts: SendToOpenAI answers
SendToOpenAI ==
    /\ pc = "openai"
    /\ Len(results) < Len(prompts)
    /\ \E respText \in Answers(Profile(brandName, competitors), prompts, results) :
          results' = Append(results,
                            [Prompt |-> prompts[Len(results) + 1].Prompt,
                             Response |-> respText])
    /\ UNCHANGED <<pc, model, brandName, competitors, prompts, brandAliases,
                   competitorMap, analysisResults, previousResults, counted,
                   status>>
    /\ UNCHANGED <<call, stored, tasks>>

\* SendToOpenAI or StorePromptResponses fails: 500 and return
FetchFails ==
    /\ pc = "openai"
    /\ status' = 500
    /\ pc' = "idle"
    /\ NoRequest
    /\ UNCHANGED model
    /\ UNCHANGED <<call, stored, tasks>>

\* StorePromptResponses succeeds, then both alias lists are generated
Aliases ==
    /\ pc = "openai"
    /\ Len(results) = Len(prompts)
    /\ brandAliases' \in GenerateAliases(brandName)
    /\ \E cm \in [Range(competitors) -> UNION {GenerateAliases(c) : c \in Range(competitors)}] :
          /\ \A c \in Range(competitors) : cm[c] \in GenerateAliases(c)
          /\ competitorMap' = cm
    /\ pc' = "analyze"
    /\ UNCHANGED <<model, brandName, competitors, prompts, results,
                   analysisResults, previousResults, counted, status>>
    /\ stored' = [stored EXCEPT !.responses = TRUE]
    /\ UNCHANGED <<call, tasks>>

WithoutPasses(a) == [f \in DOMAIN a \ {"Passes"} |-> a[f]]

\* the call pkg.AnalyzeResponses(results, req.Prompts[0].Country, ...)
Analyze ==
    /\ pc = "analyze"
    /\ \E out \in AnalyzeResponses(model, results, prompts[1].Country,
                                   brandName, brandAliases, competitorMap) :
          /\ analysisResults' = [i \in 1..Len(out) |-> WithoutPasses(out[i])]
          /\ counted' = [i \in 1..Len(out) |-> out[i].Passes]
    /\ pc' = "persist"
    /\ UNCHANGED <<model, brandName, competitors, prompts, results,
                   brandAliases, competitorMap, previousResults, status>>
    /\ UNCHANGED <<call, stored, tasks>>

\* pkg.AnalyzeResponses called once more on the same arguments (explored
\* for the batch profiles and the batch texts)
AnalyzeAgain ==
    /\ pc = "persist"
    /\ previousResults = <<>>
    /\ Len(prompts) = 1
    /\ Profile(brandName, competitors) \in BatchProfiles
    /\ results[1].Response \in BatchTexts
    /\ \E out \in AnalyzeResponses(model, results, prompts[1].Country,
                                   brandName, brandAliases, competitorMap) :
          /\ analysisResults' = [i \in 1..Len(out) |-> WithoutPasses(out[i])]
          /\ counted' = [i \in 1..Len(out) |-> out[i].Passes]
    /\ previousResults' = <<analysisResults>>
    /\ UNCHANGED <<pc, model, brandName, competitors, prompts, results,
                   brandAliases, competitorMap, status>>
    /\ UNCHANGED <<call, stored, tasks>>

\* some analysis of the slice cites a domain, so domainEntries is not empty
HasDomainEntries(as) == \E i \in 1..Len(as) : as[i].Domains # <<>>

\* the tables once the first n of StorePromptMeta, StoreBrandAnalyses and
\* StoreDomainAnalyses have succeeded; each is one INSERT statement, nothing
\* is rolled back, and a store of no entries inserts nothing
StoredAfter(before, as, n) ==
    [responses |-> before.responses,
     meta |-> n >= 1 /\ as # <<>>,
     brands |-> n >= 2 /\ as # <<>>,
     domains |-> n >= 3 /\ HasDomainEntries(as)]

\* the three bulk stores and the answer: 200, or 500 at the first failure
Persist ==
    /\ pc = "persist"
    /\ \E n \in 0..3 :
          /\ stored' = StoredAfter(stored, analysisResults, n)
          /\ status' = IF n = 3 THEN 200 ELSE 500
    /\ pc' = "idle"
    /\ NoRequest
    /\ UNCHANGED model
    /\ UNCHANGED <<call, tasks>>

Next ==
    \/ Main
    \/ MainFatal
    \/ Accept
    \/ Reject
    \/ SendToOpenAI
    \/ FetchFails
    \/ Aliases
    \/ Analyze
    \/ AnalyzeAgain
    \/ Persist

Spec == Init /\ [][Next]_vars

----------------------------------------------------------------------------
(* The package on its own: its exported functions called directly, in any
   order, from the state the package is initialised in (model is nil) *)

\* the variables of the server, which is not running
ServerVars ==
    <<pc, brandName, competitors, prompts, results, brandAliases,
      competitorMap, analysisResults, previousResults, counted, status,
      stored>>

InitPackage ==
    /\ pc = "package"
    /\ model = Nil
    /\ brandName = <<>>
    /\ competitors = <<>>
    /\ prompts = <<>>
    /\ results = <<>>
    /\ brandAliases = <<>>
    /\ competitorMap = <<>>
    /\ analysisResults = <<>>
    /\ previousResults = <<>>
    /\ counted = <<>>
    /\ status = 0
    /\ call = NoCall
    /\ stored = NothingStored
    /\ tasks = NoTasks

\* the records of a call of fn on args whose possible results are outs: it
\* panics when there is none
Outcomes(fn, args, outs) ==
    IF outs = {}
    THEN {[fn |-> fn, args |-> args, panicked |-> TRUE, ret |-> <<>>]}
    ELSE {[fn |-> fn, args |-> args, panicked |-> FALSE, ret |-> <<out>>] :
             out \in outs}

\* the texts and response lists the direct calls are explored with
CallAlphabet == {"a", " "}
CallTexts == StringsUpTo(CallAlphabet, MaxBatchLen)
CallResponses ==
    {<<>>} \cup {<<[Prompt |-> "p1", Response |-> t]>> : t \in CallTexts}

\* SetSentimentModel(m), m nil or a restored model
SetSentimentModel ==
    /\ pc = "package"
    /\ \E m \in Models \cup {Nil} :
          /\ model' = m
          /\ call' = [fn |-> "SetSentimentModel", args |-> <<m>>,
                      panicked |-> FALSE, ret |-> <<>>]
    /\ UNCHANGED <<ServerVars, tasks>>

\* AnalyzeSentiment(text)
CallAnalyzeSentiment ==
    /\ pc = "package"
    /\ \E text \in CallTexts :
          call' \in Outcomes("AnalyzeSentiment", <<text>>,
                             AnalyzeSentiment(model, text))
    /\ UNCHANGED <<ServerVars, model, tasks>>

\* AnalyzeResponses(responses, "IN", "b", ["b"], {"ab": ["ab"]})
CallAnalyzeResponses ==
    /\ pc = "package"
    /\ \E responses \in CallResponses :
          call' \in Outcomes("AnalyzeResponses", <<responses>>,
                             AnalyzeResponses(model, responses, "IN", NameB,
                                              <<NameB>>,
                                              NameJoined :> <<NameJoined>>))
    /\ UNCHANGED <<ServerVars, model, tasks>>

\* the names GenerateAliases is called with directly: the empty name and
\* names of spaces are among them
CallNameAlphabet == {"A", " ", "-"}
CallNames == StringsUpTo(CallNameAlphabet, MaxNameLen)

\* GenerateAliases(name); it does not read the model, and is explored in the
\* state the package starts in
CallGenerateAliases ==
    /\ pc = "package"
    /\ model = Nil
    /\ \E name \in CallNames :
          call' \in Outcomes("GenerateAliases", <<name>>,
                             GenerateAliases(name))
    /\ UNCHANGED <<ServerVars, model, tasks>>

NextPackage ==
    \/ SetSentimentModel
    \/ CallAnalyzeSentiment
    \/ CallAnalyzeResponses
    \/ CallGenerateAliases

PackageSpec == InitPackage /\ [][NextPackage]_vars

----------------------------------------------------------------------------
(* AnalyzeResponses on two goroutines: each call has its own arguments and
   locals (its results slice, the map CountBrandMentions returned to it);
   pkg.model is the one variable both read *)

TaskIds == {1, 2}

\* the arguments of a call
TaskInput(responses, name, aliases, competitorAliases) ==
    [responses |-> responses, country |-> "IN", name |-> name,
     aliases |-> aliases, competitorAliases |-> competitorAliases]

\* the response lists the calls are explored with
TaskResponses ==
    CallResponses
    \cup {<<[Prompt |-> "p1", Response |-> <<"a">>],
            [Prompt |-> "p2", Response |-> <<>>]>>}

NameA == <<"a">>

TaskInputs ==
    {TaskInput(rs, NameB, <<NameB>>, NameJoined :> <<NameJoined>>) :
        rs \in TaskResponses}
    \cup {TaskInput(rs, NameA, <<NameA>>, <<>>) : rs \in TaskResponses}

\* a goroutine entering AnalyzeResponses: var results, nothing counted yet
NewTask(input) ==
    [input |-> input, i |-> 1, phase |-> "count", passes |-> <<>>,
     out |-> <<>>, overlapped |-> FALSE]

InitConcurrent ==
    /\ pc = "concurrent"
    /\ model = Restored
    /\ brandName = <<>>
    /\ competitors = <<>>
    /\ prompts = <<>>
    /\ results = <<>>
    /\ brandAliases = <<>>
    /\ competitorMap = <<>>
    /\ analysisResults = <<>>
    /\ previousResults = <<>>
    /\ counted = <<>>
    /\ status = 0
    /\ call = NoCall
    /\ stored = NothingStored
    /\ \E first \in TaskInputs, second \in TaskInputs :
          tasks = <<NewTask(first), NewTask(second)>>

\* the range over responses of goroutine k is over
Done(k) == tasks[k].i > Len(tasks[k].input.responses)

\* goroutine k is inside its call
Running(k) ==
    ~Done(k) /\ (tasks[k].i > 1 \/ tasks[k].phase = "assemble")

Other(k) == CHOOSE j \in TaskIds : j # k

\* every goroutine reading the locals of the first one
SharedFrame(k) == tasks[1]

\* the stack frame in which goroutine k finds its locals: its own
Frame(k) == tasks[k]

\* mentions := CountBrandMentions(r.Response, ...) on goroutine k
CountMentions(k) ==
    /\ pc = "concurrent"
    /\ ~Done(k)
    /\ tasks[k].phase = "count"
    /\ \E order \in Orderings(DOMAIN tasks[k].input.competitorAliases) :
          tasks' = [tasks EXCEPT
                      ![k].passes =
                          MentionPasses(
                              tasks[k].input.responses[tasks[k].i].Response,
                              tasks[k].input.name, tasks[k].input.aliases,
                              tasks[k].input.competitorAliases, order),
                      ![k].phase = "assemble",
                      ![k].overlapped = @ \/ Running(Other(k))]
    /\ UNCHANGED <<ServerVars, model, call>>

\* the rest of the loop body on goroutine k, up to the append to results
Assemble(k) ==
    /\ pc = "concurrent"
    /\ ~Done(k)
    /\ tasks[k].phase = "assemble"
    /\ \E a \in AnalyzePasses(model, tasks[k].input.responses[tasks[k].i],
                              tasks[k].input.country, tasks[k].input.name,
                              tasks[k].input.aliases,
                              tasks[k].input.competitorAliases,
                              Frame(k).passes) :
          tasks' = [tasks EXCEPT
                      ![k].out = Append(@, a),
                      ![k].i = @ + 1,
                      ![k].phase = "count",
                      ![k].overlapped = @ \/ Running(Other(k))]
    /\ UNCHANGED <<ServerVars, model, call>>

NextConcurrent ==
    \E k \in TaskIds :
        \/ CountMentions(k)
        \/ Assemble(k)

ConcurrentSpec == InitConcurrent /\ [][NextConcurrent]_vars

----------------------------------------------------------------------------
(* What the properties below speak of *)

\* the analysis of the request in hand is there
Analyzed == pc = "persist"

Responses == 1..Len(results)

\* the alias list AnalyzeResponses used for entry j of a Brands list
AliasesOfEntry(brands, j) ==
    IF j = 1 THEN brandAliases ELSE competitorMap[brands[j].BrandName]

\* alias occurs in text as a case-insensitive substring
OccursIn(text, alias) == Index(ToLower(text), ToLower(alias)) # -1

\* the offsets at which the non-empty aliases of a list first occur in text
FirstOffsets(text, aliases) ==
    {Index(ToLower(text), ToLower(aliases[k])) :
        k \in {l \in 1..Len(aliases) : aliases[l] # <<>>}} \ {-1}

\* the earliest occurrence of any alias of any entity is one of the brand's
BrandIsEarliest(text) ==
    /\ FirstOffsets(text, brandAliases) # {}
    /\ \A c \in DOMAIN competitorMap :
          \A o \in FirstOffsets(text, competitorMap[c]) :
              Min(FirstOffsets(text, brandAliases)) < o

RECURSIVE SumOver(_, _)
SumOver(m, keys) ==
    IF keys = {} THEN 0
    ELSE LET k == CHOOSE x \in keys : TRUE
         IN  m[k] + SumOver(m, keys \ {k})

\* the keys of a counts map that fold to one of the aliases
KeysOf(m, aliases) ==
    {k \in DOMAIN m : \E a \in Range(aliases) : EqualFold(k, a)}

IsScenario == brandName = AcmeCorp /\ competitors = <<Globex>>

----------------------------------------------------------------------------
(* BrandPosition *)

\* C1: BrandPosition returns 1 for the brand whenever the earliest
\* occurrence of any alias among all entities is one of the brand's; in the
\* scenario (brand "Acme Corp", competitor "Globex") the brand's position
\* is 1.
C1_EarliestRanksFirst ==
    Analyzed =>
        \A i \in Responses :
            /\ BrandIsEarliest(results[i].Response)
                  => analysisResults[i].Position = 1
            /\ IsScenario => analysisResults[i].Position = 1

\* C2: BrandPosition returns 0 for its target - the brand, or a competitor
\* in its entry of Brands - whenever neither the target's name nor any of
\* its aliases occurs in the text as a case-insensitive substring.
C2_AbsentRanksZero ==
    Analyzed =>
        \A i \in Responses :
            \A j \in 1..Len(analysisResults[i].Brands) :
                LET entry == analysisResults[i].Brands[j]
                    names == <<entry.BrandName>>
                             \o AliasesOfEntry(analysisResults[i].Brands, j)
                IN  (\A k \in 1..Len(names) :
                        ~OccursIn(results[i].Response, names[k]))
                    => entry.Position = 0

\* the brand is absent from a text in which a competitor occurs, and ranks 0
C2_Witness ==
    /\ Analyzed
    /\ \E i \in Responses :
          /\ \A a \in Range(<<brandName>> \o brandAliases) :
                ~OccursIn(results[i].Response, a)
          /\ \E c \in DOMAIN competitorMap :
                FirstOffsets(results[i].Response, competitorMap[c]) # {}
          /\ analysisResults[i].Position = 0

----------------------------------------------------------------------------
(* CountBrandMentions *)

\* the literals the patterns of a request are built from
Literals ==
    {TrimSpace(ToLower(a)) :
        a \in Range(brandAliases)
              \cup UNION {Range(competitorMap[c]) : c \in DOMAIN competitorMap}}

\* the whole-word matches of the literals that are present in text
MatchesPresent(text) ==
    {<<lit, p>> \in Literals \X (0..Len(text)) : MatchAt(ToLower(text), lit, p)}

\* C3: CountBrandMentions never credits a character of the text to two
\* different entities, and the sum of the counts it returns never exceeds
\* the number of alias matches present in the text.
C3_NoSpanCountedTwice ==
    Analyzed =>
        \A i \in Responses :
            /\ \A p, q \in 1..Len(counted[i]) :
                  counted[i][p].name # counted[i][q].name =>
                      \A s \in Range(counted[i][p].spans),
                         t \in Range(counted[i][q].spans) :
                          Range(s.offs) \cap Range(t.offs) = {}
            /\ SumOver(analysisResults[i].Mentions,
                       DOMAIN analysisResults[i].Mentions)
                  <= Cardinality(MatchesPresent(results[i].Response))

\* C4: in the scenario CountBrandMentions returns {"Acme Corp": 1,
\* "Globex": 1}.
C4_ScenarioCountsOneEach ==
    (Analyzed /\ IsScenario) =>
        \A i \in Responses :
            analysisResults[i].Mentions = (AcmeCorp :> 1) @@ (Globex :> 1)

\* C4 as amended: in the scenario CountBrandMentions returns
\* {"Acme Corp": 2, "Globex": 1}, whatever the order of the aliases: "acme"
\* is a whole word in "Acme is" and in "acme.com".
C4_ScenarioCounts ==
    (Analyzed /\ IsScenario) =>
        \A i \in Responses :
            analysisResults[i].Mentions = (AcmeCorp :> 2) @@ (Globex :> 1)

\* the scenario has been analysed and the brand counted twice
C4_Witness ==
    /\ Analyzed
    /\ IsScenario
    /\ results[1].Response = ScenarioText
    /\ analysisResults[1].Mentions[AcmeCorp] = 2

----------------------------------------------------------------------------
(* CalculateBrandVisibility *)

\* v is the float (target / total) * 100
IsShare(v, target, total) ==
    v.den > 0 /\ v.num * total = 100 * target * v.den

\* C5: every visibility AnalyzeResponses records - the brand's, from the
\* brand name and its aliases, and each competitor's, from its aliases - is
\* 0 when the counts sum to 0 and otherwise (targetCount / total) * 100,
\* where targetCount sums the counts of the keys that fold to one of the
\* aliases given; so it is 100 when every mention counted is the target's.
C5_VisibilityIsShare ==
    Analyzed =>
        \A i \in Responses :
            \A j \in 1..Len(analysisResults[i].Brands) :
                LET m == analysisResults[i].Mentions
                    v == analysisResults[i].Brands[j].Visibility
                    given == IF j = 1 THEN <<brandName>> \o brandAliases
                             ELSE AliasesOfEntry(analysisResults[i].Brands, j)
                    total == SumOver(m, DOMAIN m)
                    target == SumOver(m, KeysOf(m, given))
                IN  /\ total = 0 => v = Zero
                    /\ total > 0 => IsShare(v, target, total)
                    /\ (total > 0 /\ target = total) => v = [num |-> 100, den |-> 1]
                    /\ j = 1 => analysisResults[i].Visibility = v

\* the brand holds a part, not all, of the mentions counted
C5_Witness ==
    /\ Analyzed
    /\ \E i \in Responses :
          /\ SumOver(analysisResults[i].Mentions,
                     DOMAIN analysisResults[i].Mentions) > 1
          /\ analysisResults[i].Visibility.num \notin {0, 100}

----------------------------------------------------------------------------
(* GenerateAliases *)

\* both alias lists of the request in hand have been generated
Generated == pc \in {"analyze", "persist"}

\* the aliases of a name in the order of the documentation, those that do
\* not apply left out: the lowercased trimmed name, its words joined, its
\* first word, the initials of two words or more, the joined form without
\* '-' and '_'
NameAliases(lowered, words, joined) ==
    <<lowered, joined>>
    \o (IF Len(words) >= 1 THEN <<words[1]>> ELSE <<>>)
    \o (IF Len(words) >= 2
        THEN <<[i \in 1..Len(words) |-> Head(words[i])]>> ELSE <<>>)
    \o <<SelectSeq(joined, LAMBDA c : c \notin {"-", "_"})>>

WordsAliases(lowered, words) == NameAliases(lowered, words, Join(words, <<>>))

AliasesInOrder(n) ==
    WordsAliases(ToLower(TrimSpace(n)), Fields(ToLower(TrimSpace(n))))

\* s without the elements that occur earlier in it
RECURSIVE SkipDuplicates(_)
SkipDuplicates(s) ==
    IF s = <<>> THEN <<>>
    ELSE LET front == SkipDuplicates(SubSeq(s, 1, Len(s) - 1))
         IN  IF s[Len(s)] \in Range(front) THEN front
             ELSE Append(front, s[Len(s)])

\* the names of the request in hand with the alias list generated for each
GeneratedLists ==
    {<<brandName, brandAliases>>}
    \cup {<<c, competitorMap[c]>> : c \in DOMAIN competitorMap}

\* returned is the set of aliases of a name, given in order as expected
IsAliasSet(returned, expected) ==
    /\ returned = Range(expected)
    /\ expected[1] \in returned
    /\ Len(expected) = 4 =>
          returned \subseteq
              {expected[1], SelectSeq(expected[1], LAMBDA c : c \notin {"-", "_"})}

\* C6: the strings GenerateAliases returns for a name N are exactly
\* lowercase(trim(N)), its words joined, its first word, the initials of
\* its words if there are at least two, and the joined form without '-' and
\* '_'; so lowercase(trim(N)) is always among them, and a name of one word
\* (whose list of aliases in order has four entries, none for initials)
\* gets no alias besides itself and itself without '-' and '_'.
C6_AliasSet ==
    Generated =>
        \A g \in GeneratedLists :
            IsAliasSet(Range(g[2]), AliasesInOrder(g[1]))

\* a name of two words whose four aliases differ
C6_Witness ==
    /\ pc = "analyze"
    /\ brandName = <<"-", " ", "a">>
    /\ Range(brandAliases) = {<<"-", " ", "a">>, <<"-", "a">>, <<"-">>, <<"a">>}

\* C7: the sequence GenerateAliases returns starts with the lowercased
\* trimmed name, and the other aliases follow in the order joined form,
\* first word, initials, form without hyphens and underscores.
C7_AliasOrder ==
    Generated =>
        \A g \in GeneratedLists :
            /\ g[2][1] = ToLower(TrimSpace(g[1]))
            /\ g[2] = SkipDuplicates(AliasesInOrder(g[1]))

----------------------------------------------------------------------------
(* ExtractDomains *)

ExampleCom == <<"e","x","a","m","p","l","e",".","c","o","m">>

\* C8: ExtractDomains returns one citation for every distinct domain token
\* of the text and no other, however often a token occurs, each with
\* Used 1, AvgCitations 0 and Type "unknown"; for "see example.com and
\* example.com again" it returns the one citation of example.com.
C8_OneCitationPerDomain ==
    Analyzed =>
        \A i \in Responses :
            LET domains == analysisResults[i].Domains
            IN  /\ \A k \in 1..Len(domains) :
                      /\ domains[k].Used = 1
                      /\ domains[k].AvgCitations = 0
                      /\ domains[k].Type = "unknown"
                /\ \A k, l \in 1..Len(domains) :
                      domains[k].Domain = domains[l].Domain => k = l
                /\ {domains[k].Domain : k \in 1..Len(domains)}
                      = Range(FindAllDomains(results[i].Response, 0))
                /\ results[i].Response = ExampleText =>
                      domains = <<[Domain |-> ExampleCom, Used |-> 1,
                                   AvgCitations |-> 0, Type |-> "unknown"]>>

\* a text that holds the same domain twice has been analysed
C8_Witness ==
    /\ Analyzed
    /\ results[1].Response = ExampleText
    /\ Len(FindAllDomains(results[1].Response, 0)) = 2
    /\ Len(analysisResults[1].Domains) = 1

----------------------------------------------------------------------------
(* AnalyzeResponses *)

\* C9: AnalyzeResponses called twice on the same responses, country, brand,
\* brand aliases and competitor aliases returns the same results: the same
\* mentions and the same Brands list in the same order.
C9_SameInputsSameResults ==
    (Analyzed /\ previousResults # <<>>) =>
        analysisResults = previousResults[1]

\* C10: AnalyzeResponses returns one result per input pair, in the order of
\* the input: result i carries prompt i and response i unchanged and the
\* country passed to the call.
C10_OneResultPerInput ==
    Analyzed =>
        /\ Len(analysisResults) = Len(results)
        /\ \A i \in Responses :
              /\ analysisResults[i].Prompt = results[i].Prompt
              /\ analysisResults[i].Response = results[i].Response
              /\ analysisResults[i].Location = prompts[1].Country

\* two different pairs have been analysed
C10_Witness ==
    /\ Analyzed
    /\ Len(results) = 2
    /\ results[1].Response # results[2].Response
    /\ analysisResults[2].Prompt = prompts[2].Prompt

----------------------------------------------------------------------------
(* The Brands list *)

\* the names of a Brands list, in its order
BrandNames(brands) == [j \in 1..Len(brands) |-> brands[j].BrandName]

\* C11: in every result of AnalyzeResponses the Brands list has the main
\* brand first and then one entry per competitor, in the order in which the
\* handler received the competitors from the user's record.
C11_BrandsInInputOrder ==
    Analyzed =>
        \A i \in Responses :
            BrandNames(analysisResults[i].Brands) = <<brandName>> \o competitors

----------------------------------------------------------------------------
(* AnalyzeSentiment *)

\* C12: AnalyzeSentiment called while the model is nil panics and returns
\* no score, and so AnalyzeResponses on a list that is not empty panics and
\* returns no result in that state.
C12_NilModelPanics ==
    /\ (call.fn = "AnalyzeSentiment" /\ model = Nil)
          => (call.panicked /\ call.ret = <<>>)
    /\ (call.fn = "AnalyzeResponses" /\ model = Nil /\ call.args[1] # <<>>)
          => (call.panicked /\ call.ret = <<>>)

\* AnalyzeResponses has been called on one response before any model was set
C12_Witness ==
    /\ call.fn = "AnalyzeResponses"
    /\ model = Nil
    /\ Len(call.args[1]) = 1
    /\ call.panicked

\* s is floor((r / 2) * 99) + 1 clamped to 1..100; the floor f lies between
\* 49r and 50r
IsRescaled(s, r) ==
    \E f \in (49 * r)..(50 * r) :
        /\ 2 * f <= 99 * r
        /\ 99 * r < 2 * f + 2
        /\ s = IF f + 1 > 100 THEN 100 ELSE IF f + 1 < 1 THEN 1 ELSE f + 1

\* C13: for every raw score r of the classifier AnalyzeSentiment returns
\* floor((r / 2) * 99) + 1 clamped to 1..100: an integer of 1..100, 1 for
\* r = 0, 50 for r = 1, 100 for r = 2, and 100 for every greater r.
C13_SentimentRescaled ==
    (call.fn = "AnalyzeSentiment" /\ ~call.panicked) =>
        LET r == SentimentScore(model, call.args[1])
            s == call.ret[1]
        IN  /\ s \in 1..100
            /\ IsRescaled(s, r)
            /\ r = 0 => s = 1
            /\ r = 1 => s = 50
            /\ r >= 2 => s = 100

\* a raw score beyond 2 has been rescaled
C13_Witness ==
    /\ call.fn = "AnalyzeSentiment"
    /\ ~call.panicked
    /\ SentimentScore(model, call.args[1]) = MaxUint8
    /\ call.ret = <<100>>

----------------------------------------------------------------------------
(* Empty texts *)

\* C14: for an empty response text (the names are never empty) nothing
\* fails: CountBrandMentions returns 0 for every entity, BrandPosition
\* returns 0 for every entity, ExtractDomains returns no citation and
\* WordVolume returns 0.
C14_EmptyTextEmptyResults ==
    Analyzed =>
        \A i \in Responses :
            results[i].Response = <<>> =>
                /\ \A k \in DOMAIN analysisResults[i].Mentions :
                      analysisResults[i].Mentions[k] = 0
                /\ analysisResults[i].Position = 0
                /\ \A j \in 1..Len(analysisResults[i].Brands) :
                      analysisResults[i].Brands[j].Position = 0
                /\ analysisResults[i].Domains = <<>>
                /\ analysisResults[i].Volume = 0

----------------------------------------------------------------------------
(* The ranking inside BrandPosition *)

\* the entities of the request in hand
Entities == {brandName} \cup DOMAIN competitorMap

\* the names an entity goes by: for the brand its name and its aliases, for
\* a competitor its aliases
EntityAliases(e) ==
    (IF e = brandName THEN <<brandName>> \o brandAliases ELSE <<>>)
    \o (IF e \in DOMAIN competitorMap THEN competitorMap[e] ELSE <<>>)

\* the offsets at which the names of a list first occur in text
Offsets(text, names) ==
    {Index(ToLower(text), ToLower(names[k])) : k \in 1..Len(names)} \ {-1}

\* the entities of which a name occurs in text
Occurring(text) == {e \in Entities : Offsets(text, EntityAliases(e)) # {}}

\* C15: in the brand's BrandPosition call the ranking holds exactly one
\* entry for every entity (brand or competitor) of which an alias occurs in
\* the text, and the offset of the entry is the lowest offset at which any
\* alias of that entity occurs in the lowercased text.
C15_LowestOffsetPerEntity ==
    Analyzed =>
        \A i \in Responses :
            LET text == results[i].Response
                brandIndices == BrandIndices(text, brandName, brandAliases,
                                             competitorMap)
            IN  /\ DOMAIN brandIndices = Occurring(text)
                /\ \A e \in DOMAIN brandIndices \cap Occurring(text) :
                      brandIndices[e] = Min(Offsets(text, EntityAliases(e)))

\* the position the result of response i reports for entry j of its Brands
\* list (entry 1 is the main brand, also reported as Position)
PositionOf(i, j) == analysisResults[i].Brands[j].Position

\* the aliases of entry j of the Brands list of response i
AliasesAt(i, j) == EntityAliases(analysisResults[i].Brands[j].BrandName)

\* C16: the position reported for an entity is 0 only if none of its
\* aliases occurs in the response text: whenever an alias of the entity
\* occurs as a case-insensitive substring, and so whenever its mention count
\* is positive, its position in the AnalysisResult is at least 1.
C16_OccurringRanksAtLeastOne ==
    Analyzed =>
        \A i \in Responses :
            /\ Offsets(results[i].Response, EntityAliases(brandName)) # {}
                  => analysisResults[i].Position >= 1
            /\ \A j \in 1..Len(analysisResults[i].Brands) :
                  /\ Offsets(results[i].Response, AliasesAt(i, j)) # {}
                        => PositionOf(i, j) >= 1
                  /\ analysisResults[i].Mentions[
                         analysisResults[i].Brands[j].BrandName] > 0
                        => PositionOf(i, j) >= 1

\* the entities of the BrandPosition call made for target
CallEntities(target) == {target} \cup DOMAIN competitorMap

\* the entities of that call of which a name occurs in text
CallOccurring(text, target) ==
    {e \in CallEntities(target) : Offsets(text, EntityAliases(e)) # {}}

\* C17: every position produced by BrandPosition lies in 0..N, N the number
\* of entities of the call (target plus competitors), and a position that is
\* not 0 never exceeds the number of distinct entities occurring in the text.
C17_PositionWithinEntities ==
    Analyzed =>
        \A i \in Responses :
            \A j \in 1..Len(analysisResults[i].Brands) :
                LET target == analysisResults[i].Brands[j].BrandName
                IN  /\ PositionOf(i, j) \in 0..Cardinality(CallEntities(target))
                    /\ PositionOf(i, j)
                          <= Cardinality(CallOccurring(results[i].Response,
                                                       target))

\* C18: the position of a competitor is its rank by first occurrence among
\* the main brand and all the other competitors: within one result, two
\* entities whose positions are not 0 and whose first occurrences are at
\* different offsets have different positions.
C18_DistinctOffsetsDistinctRanks ==
    Analyzed =>
        \A i \in Responses :
            \A j, k \in 1..Len(analysisResults[i].Brands) :
                LET first(n) == Offsets(results[i].Response, AliasesAt(i, n))
                IN  ( /\ j # k
                      /\ PositionOf(i, j) # 0
                      /\ PositionOf(i, k) # 0
                      /\ first(j) # {}
                      /\ first(k) # {}
                      /\ Min(first(j)) # Min(first(k)) )
                    => PositionOf(i, j) # PositionOf(i, k)

----------------------------------------------------------------------------
(* Counting once more *)

\* C19: for the same text, brand and competitor alias lists
\* CountBrandMentions returns the same counts on every invocation: which
\* competitor is credited with a match of an alias that two competitors
\* share does not vary between runs.
C19_SameCountsEveryRun ==
    (Analyzed /\ previousResults # <<>>) =>
        \A i \in Responses :
            analysisResults[i].Mentions = previousResults[1][i].Mentions

\* the lowercased trimmed full name of the brand
FullName == TrimSpace(ToLower(brandName))

\* text consists of exactly one occurrence of the full name
IsTheFullName(text) ==
    /\ FullName # <<>>
    /\ Len(text) = Len(FullName)
    /\ FindAllStringIndex(ToLower(text), FullName) # <<>>

\* C20: within one entity a span counted for one alias is never counted
\* again for another alias of the same entity: a whole-word occurrence of
\* the entity's full name adds exactly 1 to its count even when a shorter
\* alias is contained in it, and the count does not depend on the order of
\* the alias list.
C20_OnceWithinEntity ==
    Analyzed =>
        \A i \in Responses :
            LET pass == counted[i][1]
                text == results[i].Response
            IN  /\ \A p, q \in 1..Len(pass.spans) :
                      p # q => Range(pass.spans[p].offs)
                                 \cap Range(pass.spans[q].offs) = {}
                /\ IsTheFullName(text) => pass.count = 1
                /\ \A order \in Orderings(Range(brandAliases)) :
                      AliasLoop(WorkingText(text), order, 1).count = pass.count

----------------------------------------------------------------------------
(* The brand is counted first *)

\* the aliases the brand shares with competitor c
SharedAliases(c) == Range(brandAliases) \cap Range(competitorMap[c])

\* the offsets of the whole-word occurrences of alias in the lowercased text
OccurrenceOffsets(text, alias) ==
    LET starts == FindAllStringIndex(ToLower(text), alias)
    IN  UNION {{starts[k] + d : d \in 0..(Len(alias) - 1)} :
                  k \in 1..Len(starts)}

\* the offsets of the spans counted in a pass
OffsetsOf(pass) == UNION {Range(pass.spans[k].offs) : k \in 1..Len(pass.spans)}

\* the number of matches a pass counted for alias
CountedFor(pass, alias) ==
    Cardinality({k \in 1..Len(pass.spans) : pass.spans[k].alias = alias})

\* C21: CountBrandMentions processes the brand before any competitor: when
\* the brand and a competitor share an alias, every whole-word occurrence of
\* that alias lies in a match counted for the brand and no match of that
\* alias is counted for the competitor.
C21_BrandConsumesSharedAlias ==
    Analyzed =>
        \A i \in Responses :
            /\ counted[i][1].name = brandName
            /\ \A p \in 2..Len(counted[i]) :
                  \A alias \in SharedAliases(counted[i][p].name) :
                      /\ OccurrenceOffsets(results[i].Response, alias)
                            \subseteq OffsetsOf(counted[i][1])
                      /\ CountedFor(counted[i][p], alias) = 0

----------------------------------------------------------------------------
(* Whole words *)

\* the offsets at which alias occurs in text with no letter, digit or
\* underscore directly before or after it
Standalone(text, alias) ==
    {p \in 0..Len(text) :
        /\ OccursAt(text, alias, p)
        /\ (p = 0 \/ ~IsWordChar(text[p]))
        /\ (p + Len(alias) = Len(text)
               \/ ~IsWordChar(text[p + Len(alias) + 1]))}

\* C22: CountBrandMentions matches aliases case-insensitively and as whole
\* words only: for the alias counted first on the untouched text, the number
\* of matches counted is the number of its occurrences that have no letter,
\* digit or underscore directly before or after them, so an alias inside a
\* longer word adds nothing and every standalone occurrence adds one.
C22_WholeWordsOnly ==
    Analyzed =>
        \A i \in Responses :
            (brandAliases # <<>> /\ brandAliases[1] # <<>>) =>
                CountedFor(counted[i][1], brandAliases[1])
                    = Cardinality(Standalone(ToLower(results[i].Response),
                                             brandAliases[1]))

----------------------------------------------------------------------------
(* Visibility as a share *)

\* the sum of the visibilities of the entries j.. of a Brands list, as a
\* fraction
RECURSIVE SumOfVisibilities(_, _)
SumOfVisibilities(brands, j) ==
    IF j > Len(brands) THEN Zero
    ELSE LET v == brands[j].Visibility
             rest == SumOfVisibilities(brands, j + 1)
         IN  [num |-> v.num * rest.den + rest.num * v.den,
              den |-> v.den * rest.den]

\* C23: the visibility reported for an entity is the share of the entity's
\* own mention count in the sum of all mention counts of the response, times
\* 100, also when another entity's name equals one of its aliases; so the
\* visibilities of a response with at least one mention sum to 100.
C23_VisibilityOfOwnMentions ==
    Analyzed =>
        \A i \in Responses :
            LET m == analysisResults[i].Mentions
                brands == analysisResults[i].Brands
                total == SumOver(m, DOMAIN m)
                sum == SumOfVisibilities(brands, 1)
            IN  total > 0 =>
                    /\ \A j \in 1..Len(brands) :
                          IsShare(brands[j].Visibility,
                                  m[brands[j].BrandName], total)
                    /\ sum.num = 100 * sum.den

----------------------------------------------------------------------------
(* Sentiment of a response *)

\* every entry of Brands carries the sentiment of the response text, which
\* is also the top-level Sentiment
SameSentiment(i) ==
    /\ analysisResults[i].Sentiment
          = Rescale(SentimentScore(model, results[i].Response))
    /\ \A j \in 1..Len(analysisResults[i].Brands) :
          analysisResults[i].Brands[j].Sentiment
              = analysisResults[i].Sentiment

\* C24 (as stated): sentiment is response-level: the scorer is run once per
\* response, and every BrandAnalysis of one AnalysisResult carries the same
\* sentiment value, computed from the whole response text.
C24_ScoredOncePerResponse ==
    Analyzed =>
        \A i \in Responses :
            /\ SentimentCalls(competitorMap) = 1
            /\ SameSentiment(i)

\* C24 (amended): every BrandAnalysis of one AnalysisResult carries the same
\* sentiment value, computed from the whole response text; the scorer is
\* run once for the main brand and once more for every competitor, each
\* time on the response text.
C24_SameSentimentEveryBrand ==
    Analyzed =>
        \A i \in Responses :
            /\ SentimentCalls(competitorMap)
                  = Len(analysisResults[i].Brands)
            /\ SameSentiment(i)

\* a response of one character has been scored for a brand and two
\* competitors
C24_Witness ==
    /\ Analyzed
    /\ Len(analysisResults[1].Brands) = 3
    /\ Len(results[1].Response) = 1
    /\ analysisResults[1].Brands[3].Sentiment = 50

----------------------------------------------------------------------------
(* The model of the running server *)

\* the server accepts requests or handles one
Serving == pc \in {"idle", "openai", "analyze", "persist"}

\* C25: the sentiment model is set exactly once, before the server starts
\* accepting requests and so before any AnalyzeSentiment call, and is never
\* replaced or cleared afterwards: whenever the server serves, and so
\* whenever a scoring call runs, the model is the one installed at start-up.
C25_ModelSetOnceAtStartup ==
    /\ [](Serving => model = Restored)
    /\ [][model' # model =>
             (pc = "boot" /\ model = Nil /\ model' = Restored)]_vars

\* AnalyzeResponses has scored a response with the model installed by main
C25_Witness ==
    /\ Analyzed
    /\ model = Restored
    /\ analysisResults # <<>>
    /\ analysisResults[1].Sentiment = 50

----------------------------------------------------------------------------
(* Calls side by side *)

\* what the call of goroutine k can return when it runs alone
Alone(k) ==
    AnalyzeResponses(model, tasks[k].input.responses, tasks[k].input.country,
                     tasks[k].input.name, tasks[k].input.aliases,
                     tasks[k].input.competitorAliases)

\* C26: concurrent invocations of AnalyzeResponses on independent inputs do
\* not interfere: under every interleaving each invocation returns a result
\* it returns when run alone, and the model, the only state the invocations
\* share, is only read.
C26_NoInterference ==
    /\ model = Restored
    /\ \A k \in TaskIds : Done(k) => tasks[k].out \in Alone(k)

\* two calls that ran interleaved on different inputs have both returned
C26_Witness ==
    /\ pc = "concurrent"
    /\ \A k \in TaskIds : Done(k) /\ tasks[k].overlapped
    /\ tasks[1].input # tasks[2].input
    /\ Len(tasks[1].out) = 2
    /\ tasks[2].out # <<>>
    /\ tasks[2].out[1].Mentions # tasks[1].out[1].Mentions

----------------------------------------------------------------------------
(* Ties *)

\* two entities of the request first occur at the same offset of text
Tied(text) ==
    \E e1, e2 \in Occurring(text) :
        /\ e1 # e2
        /\ Min(Offsets(text, EntityAliases(e1)))
              = Min(Offsets(text, EntityAliases(e2)))

\* the positions a result reports, by entity name
PositionsByName(a) ==
    {<<a.Brands[j].BrandName, a.Brands[j].Position>> : j \in 1..Len(a.Brands)}

\* C27: when two entities have the same first-occurrence offset in the
\* text, BrandPosition resolves the tie by one deterministic rule: two
\* invocations on the same inputs return the same rank for every target.
C27_TiesResolvedTheSameWay ==
    (Analyzed /\ previousResults # <<>>) =>
        \A i \in Responses :
            Tied(results[i].Response) =>
                PositionsByName(analysisResults[i])
                    = PositionsByName(previousResults[1][i])

----------------------------------------------------------------------------
(* The list GenerateAliases returns *)

\* C28: for every input GenerateAliases returns a list that is not empty, of
\* pairwise distinct lowercase strings; for the empty name and for a name of
\* whitespace only it returns exactly one alias, the empty string.
C28_DistinctLowercaseAliases ==
    (call.fn = "GenerateAliases") =>
        /\ ~call.panicked
        /\ LET name == call.args[1]
               aliases == call.ret[1]
           IN  /\ Len(aliases) >= 1
               /\ \A p, q \in 1..Len(aliases) :
                     p # q => aliases[p] # aliases[q]
               /\ \A p \in 1..Len(aliases) :
                     ToLower(aliases[p]) = aliases[p]
               /\ (\A k \in 1..Len(name) : IsSpace(name[k]))
                     => aliases = <<<<>>>>

\* GenerateAliases has been called with a name of one space
C28_Witness ==
    /\ call.fn = "GenerateAliases"
    /\ call.args = <<<<" ">>>>
    /\ call.ret = <<<<<<>>>>>>

----------------------------------------------------------------------------
(* The shape of a result *)

\* C29: in every result of AnalyzeResponses the top-level Sentiment,
\* Position and Visibility are those of the first entry of Brands, that
\* entry is the main brand, and the Mentions map has exactly one key for
\* every entity listed in Brands (and no other key).
C29_TopLevelIsFirstBrand ==
    Analyzed =>
        \A i \in Responses :
            LET a == analysisResults[i]
            IN  /\ a.Brands # <<>>
                /\ a.Brands[1].BrandName = brandName
                /\ a.Sentiment = a.Brands[1].Sentiment
                /\ a.Position = a.Brands[1].Position
                /\ a.Visibility = a.Brands[1].Visibility
                /\ DOMAIN a.Mentions
                      = {a.Brands[j].BrandName : j \in 1..Len(a.Brands)}
                /\ Cardinality(DOMAIN a.Mentions) = Len(a.Brands)

----------------------------------------------------------------------------
(* What an answered request leaves in the tables *)

\* the request has been answered
Answered == pc = "idle" /\ status # 0

\* C30: HandlePromptsEntry stores all or nothing: whenever it answers with
\* an error status, no prompt response, prompt metadata, brand analysis or
\* domain analysis of the request remains stored, and it answers 200 only
\* after all its stores have succeeded.
C30_AllOrNothing ==
    Answered =>
        /\ status # 200 => stored = NothingStored
        /\ status = 200 =>
              (stored.responses /\ stored.meta /\ stored.brands)

====
